---- MODULE Spec2Model ----
(***************************************************************************)
(* Model of the shallow-stream diagnostic solver of icepack                *)
(* (src/notebooks/tutorials/05-ice-shelf-inverse.ipynb, lines 660-1235).   *)
(*                                                                         *)
(* The mesh is one cell with one interior quadrature point, two degrees of *)
(* freedom (1 = left end, 2 = right end) and one quadrature point on the   *)
(* right face.  The left face always carries boundary id 0 (Dirichlet).    *)
(* Field values are exact numbers: integers, or extended rationals where   *)
(* the code divides doubles (a division by zero gives +-Inf or NaN as in   *)
(* IEEE arithmetic).  The results of the finite-element kernels whose      *)
(* values depend on the viscosity law and on the sparse solver (the        *)
(* assembled residual coefficients, the solution of the linear system, the *)
(* number of CG steps) are inputs chosen from small sets, restricted by    *)
(* what the code fixes about them.                                         *)
(***************************************************************************)
EXTENDS Integers, Sequences, FiniteSets, TLC

\* ---------------------------------------------------------------------
\* Extended rationals: the values a double division can produce
\* ---------------------------------------------------------------------
Fin(n, d) == [k |-> "fin", n |-> n, d |-> d]
NaN == [k |-> "nan", n |-> 0, d |-> 1]
PosInf == [k |-> "pinf", n |-> 0, d |-> 1]
NegInf == [k |-> "ninf", n |-> 0, d |-> 1]

Abs(x) == IF x < 0 THEN -x ELSE x

RECURSIVE Gcd(_, _)
Gcd(a, b) == IF b = 0 THEN a ELSE Gcd(b, a % b)

\* finite rational in lowest terms with a positive denominator (d # 0)
Norm(n, d) ==
  LET g == Gcd(Abs(n), Abs(d))
  IN  IF d < 0 THEN Fin((0 - n) \div g, (0 - d) \div g) ELSE Fin(n \div g, d \div g)

\* a / b for finite a, b (IEEE: x/0 is +-Inf, 0/0 is NaN)
RDiv(a, b) ==
  IF b.n = 0
    THEN IF a.n = 0 THEN NaN
         ELSE IF (a.n > 0) = (a.d > 0) THEN PosInf ELSE NegInf
    ELSE Norm(a.n * b.d, a.d * b.n)

\* x - 1 (Inf - 1 = Inf, NaN - 1 = NaN)
RMinusOne(x) == IF x.k = "fin" THEN Fin(x.n - x.d, x.d) ELSE x

\* x > t for a finite t with positive denominator; every comparison with
\* NaN is false
RGt(x, t) ==
  CASE x.k = "nan" -> FALSE
    [] x.k = "pinf" -> TRUE
    [] x.k = "ninf" -> FALSE
    [] OTHER -> x.n * t.d > t.n * x.d

\* the opposite infinity
RNeg(x) ==
  CASE x.k = "fin" -> Norm(0 - x.n, x.d)
    [] x.k = "pinf" -> NegInf
    [] x.k = "ninf" -> PosInf
    [] OTHER -> NaN

\* a - b (Inf - Inf of the same sign is NaN)
RSub(a, b) ==
  CASE a.k = "nan" \/ b.k = "nan" -> NaN
    [] a.k = "fin" /\ b.k = "fin" -> Norm(a.n * b.d - b.n * a.d, a.d * b.d)
    [] a.k = "fin" -> RNeg(b)
    [] b.k = "fin" -> a
    [] OTHER -> IF a.k = b.k THEN NaN ELSE a

\* a * b (0 * Inf is NaN)
RMul(a, b) ==
  CASE a.k = "nan" \/ b.k = "nan" -> NaN
    [] a.k = "fin" /\ b.k = "fin" -> Norm(a.n * b.n, a.d * b.d)
    [] a.k = "fin" -> IF a.n = 0 THEN NaN ELSE IF a.n > 0 THEN b ELSE RNeg(b)
    [] b.k = "fin" -> IF b.n = 0 THEN NaN ELSE IF b.n > 0 THEN a ELSE RNeg(a)
    [] OTHER -> IF a.k = b.k THEN PosInf ELSE NegInf

\* x < t for a finite t with positive denominator
RLt(x, t) ==
  CASE x.k = "nan" -> FALSE
    [] x.k = "pinf" -> FALSE
    [] x.k = "ninf" -> TRUE
    [] OTHER -> x.n * t.d < t.n * x.d

\* x >= 0 and a == b as doubles compare: false when an operand is NaN
RGe0(x) == x.k = "pinf" \/ (x.k = "fin" /\ x.n >= 0)
REq(a, b) == a.k # "nan" /\ b.k # "nan" /\ a = b

\* ---------------------------------------------------------------------
\* Physical constants and solver parameters
\* ---------------------------------------------------------------------
\* densities in units of 100 kg/m^3 (configuration values)
rho_ice == 9
rho_water == 10

flotation_tolerance == Fin(1, 10000)
max_iterations == 100
cg_max_steps == 1000
boundary_id_dirichlet == 0
boundary_id_terminus == 1
internal_face_boundary_id == 255

\* gravity in m/s^2, rounded (configuration value)
gravity == 10

\* Residual coefficients are held in units of 1.0e-10 stress units, and
\* the relative error as (norm(r) / norm(tau))^2 in units of the squared
\* tolerance, so that the tolerance 1.0e-10 of the Newton loop is 1 and
\* an error exactly at the tolerance is a value the model can hold.
tolerance == Fin(1, 1)
\* the start value 1.0e16 of the error: above every quotient of norms
initial_error_zero == Fin(0, 1)
initial_error == Fin(1000000000, 1)
\* damping factor of the Newton update
alpha == Fin(1, 10)
\* velocity coefficients are held in tenths of the unit of the increment
velocity_scale == 10

\* ---------------------------------------------------------------------
\* Bounds of the model
\* ---------------------------------------------------------------------
\* largest residual coefficient the assembly oracle may return
MaxResidual == 300

\* ---------------------------------------------------------------------
\* Mesh: one cell, dofs 1 (left) and 2 (right), one face at each end
\* ---------------------------------------------------------------------
Dofs == {1, 2}

Face(at_boundary, boundary_id) ==
  [at_boundary |-> at_boundary, boundary_id |-> boundary_id]


\* ---------------------------------------------------------------------
\* Quadrature-point kernels
\* ---------------------------------------------------------------------
BoolInt(b) == IF b THEN 1 ELSE 0

\* s/flotation - 1.0 with flotation = (1 - rho_ice/rho_water) * H
FlotationExcess(s, H) ==
  RMinusOne(RDiv(s, Fin((rho_water - rho_ice) * H, rho_water)))

\* the flotation switch of residual and velocity_matrix
FloatingGE(s, H) ==
  LET x == FlotationExcess(s, H)
  IN  RGt(x, flotation_tolerance)
      \/ (x.k = "fin" /\ x.n * flotation_tolerance.d = flotation_tolerance.n * x.d)

Floating(s, H) == RGt(FlotationExcess(s, H), flotation_tolerance)

\* stress at the ice terminus at one face quadrature point, in the
\* direction of the outward normal: 0.5 * gravity * (rho_ice * H * H -
\* (D<0) * rho_water * D * D); faces that are not at the boundary with
\* id 1 contribute nothing
FrontalStressAnyBoundary(face, H, sf) ==
  IF face.at_boundary
    THEN LET D == sf - H
         IN  (gravity \div 2) * (rho_ice * H * H - BoolInt(D < 0) * rho_water * D * D)
    ELSE 0

FrontalStressAlwaysWater(face, H, sf) ==
  IF face.at_boundary /\ face.boundary_id = boundary_id_terminus
    THEN LET D == sf - H
         IN  (gravity \div 2) * (rho_ice * H * H - rho_water * D * D)
    ELSE 0

FrontalStress(face, H, sf) ==
  IF face.at_boundary /\ face.boundary_id = boundary_id_terminus
    THEN LET D == sf - H
         IN  (gravity \div 2) * (rho_ice * H * H - BoolInt(D < 0) * rho_water * D * D)
    ELSE 0

\* cell-interior part of the driving stress at the quadrature point
CellStress(H, grad) == (0 - rho_ice) * gravity * H * grad

\* driving_stress: both shape functions of the cell collect the interior
\* part, the shape function of dof 2 collects the terminus part
DrivingStress(face, H, grad, Hface, sface) ==
  [d \in Dofs |->
     IF d = 2 THEN CellStress(H, grad) + FrontalStress(face, Hface, sface)
              ELSE CellStress(H, grad)]

\* dofs on the part of the boundary with id 0 (extract_boundary_dofs)
BoundaryDofsTerminus(face) ==
  {1} \cup (IF face.at_boundary /\ face.boundary_id = boundary_id_terminus
              THEN {2} ELSE {})
BoundaryDofs(face) ==
  {1} \cup (IF face.at_boundary /\ face.boundary_id = boundary_id_dirichlet
              THEN {2} ELSE {})

NormSq(v) == v[1] * v[1] + v[2] * v[2]

\* ---------------------------------------------------------------------
\* CTensors: rank-4 tensors acting on symmetric 2x2 tensors, which are
\* held as << xx, yy, xy >>
\* ---------------------------------------------------------------------
first_invariant(a) == a[1] + a[2]
\* a * b, the full contraction of two symmetric tensors
Contract(a, b) == a[1] * b[1] + a[2] * b[2] + 2 * a[3] * b[3]

\* x : C : y with C = II + outer_product(I, I)
CForm(x, y) == Contract(x, y) + first_invariant(x) * first_invariant(y)

\* eps_e squared: (eps * eps + tr * tr)/2
EffectiveStrainSq(eps) ==
  Fin(Contract(eps, eps) + first_invariant(eps) * first_invariant(eps), 2)

\* x : outer_product(gamma, gamma) : y with gamma = (eps + tr * I) / eps_e:
\* the division is by the effective strain rate, also when that is zero
GammaForm(eps, x, y) ==
  RDiv(Fin(CForm(eps, x) * CForm(eps, y), 1), EffectiveStrainSq(eps))

\* viscosity(temperature, eps_e) of the power-law relation (shear thinning):
\* a positive value v at a positive strain rate, unbounded at strain rate 0
viscosity(eps_e_sq, v) == IF eps_e_sq.n = 0 THEN PosInf ELSE Fin(v, 1)

\* x : CTensors::nonlinear(temperature, h, eps) : y = 2 * nu * (x : C : y)
nonlinear(h, v, eps, x, y) ==
  LET nu == RMul(Fin(h, 1), viscosity(EffectiveStrainSq(eps), v))
  IN  RMul(RMul(Fin(2, 1), nu), Fin(CForm(x, y), 1))

\* x : CTensors::linearized(temperature, h, eps) : y
\*   = 2 * nu * (C - outer_product(gamma, gamma)/3.0) with nu = h * viscosity
linearized_reusing_nonlinear(h, v, eps, x, y) == nonlinear(h, v, eps, x, y)
linearized(h, v, eps, x, y) ==
  LET nu == RMul(Fin(h, 1), viscosity(EffectiveStrainSq(eps), v))
  IN  RMul(RMul(Fin(2, 1), nu),
           RSub(Fin(CForm(x, y), 1), RMul(Fin(1, 3), GammaForm(eps, x, y))))

\* ---------------------------------------------------------------------
\* State
\* ---------------------------------------------------------------------
VARIABLES
  pc,          \* "idle", "loop" (at the test of the Newton loop),
               \* "returned", "failed" (a solver failure left the call),
               \* and "point", "classified" for the quadrature-point checks
  face,        \* the right face of the cell
  s_q, h_q, beta_q, grad_s,  \* surface, thickness, friction and surface
               \* gradient at the interior quadrature point
  h_f, s_f,    \* thickness and surface at the face quadrature point
  u0,          \* the caller's initial guess
  u, tau, r, dU, error, i,   \* locals of diagnostic_solve
  dU_cg,       \* the increment as cg.solve left it, before the constraints
               \* were distributed
  floating,    \* flotation switch at the quadrature point
  cg_steps,    \* steps taken by the last conjugate-gradient solve
  ret,         \* what the call handed back to its caller
  updates,     \* number of damped updates applied in this call
  assemblies,  \* number of assembly passes started in this call
  last_update, \* the velocity right after the last damped update
  prev_error,  \* the error tested before the last iteration
  r_first_zero, \* whether the residual of the initial guess was zero
  capped_ret,  \* what an earlier call that stopped at the cap returned
  ctensor,     \* one evaluation of CTensors::linearized: its arguments, the
               \* test tensors and the values of the bilinear form
  inverse_solver, \* the Gauss-Newton solver object of the inverse tutorial
  sim,         \* the time-stepping loop of the ice-sheet tutorial
  tau_norm,    \* the square of the local tau_norm of diagnostic_solve
  tau_assemblies, \* number of calls of driving_stress in this call
  r_at,        \* the velocity from which the residual r was assembled
  assembly,    \* one quadrature point of residual and velocity_matrix
  placeholder  \* one call of prognostic_solve or adjoint_solve

vars == << pc, face, s_q, h_q, beta_q, grad_s, h_f, s_f, u0, u, tau, r, dU,
           error, i, floating, cg_steps, ret, updates, assemblies,
           last_update, prev_error, r_first_zero, capped_ret, dU_cg,
               tau_norm, tau_assemblies, r_at, ctensor,
           inverse_solver, sim, assembly, placeholder >>

\* the variables that diagnostic_solve does not touch
other_vars == << ctensor, inverse_solver, sim, assembly, placeholder >>

NoField == << >>
ZeroVector == << 0, 0 >>
ZeroTensor == << 0, 0, 0 >>
NoTensor ==
  [eps |-> ZeroTensor, x |-> ZeroTensor, y |-> ZeroTensor, h |-> 0, v |-> 1,
   xCy |-> Fin(0, 1), yCx |-> Fin(0, 1), xCx |-> Fin(0, 1), done |-> FALSE]

\* the forward model of the inverse problem: the state that solves the
\* diagnostic problem for a parameter
ForwardSolve(theta) == 3 * theta + 1

NoSolver ==
  [st |-> "Unused", phase |-> 0, theta |-> 0, u |-> ForwardSolve(0),
   gradient |-> 0, gradient_at |-> 0, search_direction |-> 0,
   expected_decrease |-> 0, objective |-> 0, regularization |-> 0,
   J_prev |-> 0, iteration |-> 0,
   rtol |-> Fin(0, 1), etol |-> Fin(0, 1), atol |-> 0, max_iterations |-> 0,
   has_callback |-> FALSE, callback_calls |-> 0, callback_seen |-> << >>,
   iterations |-> -1, raised |-> FALSE]

\* a scalar field of the degree-2 space Q on one cell of unit length, by
\* its nodal values << left, middle, right >>
Nodes == {1, 2, 3}
ZeroScalar == << 0, 0, 0 >>
NoValue == [k |-> "none", n |-> 0, d |-> 1]
NoAssembly ==
  [eps |-> ZeroTensor, ei |-> ZeroTensor, ej |-> ZeroTensor, h |-> 0, v |-> 1,
   s |-> Fin(0, 1), beta |-> 0, pu |-> 0, pp |-> 0, f_i |-> 0, on_boundary |-> FALSE,
   r_i |-> NoValue, r_stress |-> NoValue, r_floating |-> FALSE, r_passes |-> 0,
   r_first |-> NoValue,
   A_before |-> NoValue, A_ij |-> NoValue, A_stress |-> NoValue, A_floating |-> FALSE, A_passes |-> 0,
   A_first |-> NoValue,
   tau_i |-> NoValue, tau_passes |-> 0, tau_first |-> NoValue]
NoPlaceholder ==
  [dt |-> 0, h0 |-> NoField, a |-> NoField, u |-> NoField, beta |-> NoField,
   f |-> NoField, h_ret |-> NoField, q_ret |-> NoField]
NoSimulation ==
  [phase |-> "unused", step |-> 0, h |-> ZeroScalar, s |-> ZeroScalar,
   prognostic_calls |-> 0, diagnostic_calls |-> 0, h_handed |-> ZeroScalar,
   s_handed |-> ZeroScalar]

\* ---------------------------------------------------------------------
\* Inputs
\* ---------------------------------------------------------------------
\* (surface, thickness, surface gradient) at the interior quadrature
\* point: flat and above the flotation band, sloped and below it, sloped
\* with a negative thickness
PointCases ==
  { << Fin(1, 1), 1, 0 >>, << Fin(0, 1), 1, 1 >>, << Fin(1, 1), -1, 1 >> }
FrictionValues == {0, 1}
\* (right face, thickness, surface) at the face quadrature point: a
\* terminus with no ice, with the base below, at and above sea level, and
\* faces that are no terminus
FaceCases ==
  { << Face(TRUE, boundary_id_terminus), 0, 0 >>,
    << Face(TRUE, boundary_id_terminus), 1, 0 >>,
    << Face(TRUE, boundary_id_terminus), 1, 1 >>,
    << Face(TRUE, boundary_id_terminus), 1, 2 >>,
    << Face(TRUE, boundary_id_dirichlet), 1, 0 >>,
    << Face(FALSE, internal_face_boundary_id), 1, 0 >> }
InitialGuesses == { << 1, 2 >> }
\* the step at which the CG residual first meets its tolerance, counting
\* one past the cap for "not within the cap"
CgConvergence == { cg_max_steps, cg_max_steps + 1 }

\* ---------------------------------------------------------------------
\* Kernels of the Newton loop
\* ---------------------------------------------------------------------
\* residual coefficients the assembly may produce at a free dof: zero and
\* the values around norm(tau), where the relative error meets the tolerance
ResidualChoices(t) ==
  { k \in 0..MaxResidual :
      k = 0 \/ ((k + 1) * (k + 1) >= NormSq(t) /\ (k - 1) * (k - 1) <= NormSq(t)) }

\* residual: the assembled coefficient c at free dofs, 0 at the dofs of
\* the Dirichlet boundary
ResidualNotZeroed(fc, c) == [d \in Dofs |-> c]
Residual(fc, c) == [d \in Dofs |-> IF d \in BoundaryDofs(fc) THEN 0 ELSE c]

\* R.l2_norm() / tau_norm, on the squares; tn is the stored square of
\* tau_norm
RelativeErrorUnscaled(rr, tn) == Fin(NormSq(rr), 1)
RelativeError(rr, tn) == RDiv(Fin(NormSq(rr), 1), Fin(tn, 1))

Sign(x) == IF x > 0 THEN 1 ELSE IF x < 0 THEN -1 ELSE 0

\* linear_solve after apply_boundary_values: the increment is 0 at the
\* Dirichlet dofs and solves the definite system elsewhere (zero exactly
\* when the right-hand side is zero, of its sign otherwise)
LinearSolveOffset(rr, fc) ==
  [d \in Dofs |-> IF d \in BoundaryDofs(fc) THEN 0 ELSE 1]
LinearSolve(rr, fc) ==
  [d \in Dofs |-> IF d \in BoundaryDofs(fc) THEN 0 ELSE Sign(rr[d])]

\* the dofs that the constraints of the vector space fix (to zero): those
\* of the Dirichlet boundary
ConstrainedDofs(fc) == BoundaryDofs(fc)

\* values cg.solve may leave at a constrained dof
CgDrift == { 0, 1 }

\* cg.solve(A, u, f, M): the solution at the free dofs, and at a
\* constrained dof whatever the iteration left there
CgIterate(rr, fc, drift) ==
  [d \in Dofs |-> IF d \in ConstrainedDofs(fc) THEN drift ELSE LinearSolve(rr, fc)[d]]

\* constraints.distribute(u)
DistributeSkipped(v, fc) == v
Distribute(v, fc) == [d \in Dofs |-> IF d \in ConstrainedDofs(fc) THEN 0 ELSE v[d]]

\* linear_solve on its normal path: the iteration, then the distribution
linear_solve(rr, fc, drift) == Distribute(CgIterate(rr, fc, drift), fc)

\* SolverControl(1000, 1.0e-12): the solve stops at the first step whose
\* residual meets the tolerance and fails when the cap is used up
CgStepsUncapped(conv) == conv
CgStepsTaken(conv) == IF conv <= cg_max_steps THEN conv ELSE cg_max_steps
CgFails(conv) == conv > cg_max_steps

\* U.add(alpha, dU), velocities in tenths
AddScaledFull(U, a, d) == [k \in Dofs |-> U[k] + velocity_scale * d[k]]
AddScaled(U, a, d) ==
  [k \in Dofs |-> U[k] + (a.n * velocity_scale * d[k]) \div a.d]

\* the loop test: i < max_iterations && error > tolerance
LoopContinuesGE(n, e) ==
  n < max_iterations /\ (RGt(e, tolerance) \/ (e.k = "fin" /\ e.n = e.d))
LoopContinues(n, e) == n < max_iterations /\ RGt(e, tolerance)

\* the velocity when the linear solve throws: U.add is not reached
VelocityUpdatedAnyway(U, d) == AddScaled(U, alpha, d)
VelocityOnSolveFailure(U, d) == U

\* u.copy_from(u0): the loop works on a copy, the caller's field stays
GuessAliased(U0, Unew) == Unew
GuessAfterUpdate(U0, Unew) == U0

\* the velocity that residual(s, h, beta, u, tau) reads at the end of a
\* pass: the updated one
ResidualPointBeforeUpdate(Uold, Unew) == Uold
ResidualPoint(Uold, Unew) == Unew

\* return u
ReturnInitialGuess(U, U0) == U0
ReturnValue(U, U0) == U

\* ---------------------------------------------------------------------
\* diagnostic_solve
\* ---------------------------------------------------------------------
SolverIdle ==
  /\ face = Face(TRUE, boundary_id_terminus)
  /\ s_q = Fin(0, 1) /\ h_q = 0 /\ beta_q = 0 /\ grad_s = 0
  /\ h_f = 0 /\ s_f = 0
  /\ u0 = ZeroVector
  /\ u = NoField /\ tau = NoField /\ r = NoField /\ dU = NoField
  /\ error = initial_error /\ i = 0
  /\ floating = FALSE
  /\ cg_steps = 0
  /\ ret = NoField
  /\ updates = 0 /\ assemblies = 0
  /\ last_update = NoField
  /\ prev_error = initial_error
  /\ r_first_zero = FALSE
  /\ capped_ret = NoField
  /\ dU_cg = NoField
  /\ tau_norm = 0 /\ tau_assemblies = 0 /\ r_at = NoField

Init ==
  /\ pc = "idle"
  /\ SolverIdle
  /\ ctensor = NoTensor
  /\ inverse_solver = NoSolver
  /\ sim = NoSimulation
  /\ assembly = NoAssembly
  /\ placeholder = NoPlaceholder

\* the call up to the loop: copy of the initial guess, driving stress and
\* its norm, first residual, error = 1.0e16
Enter(fc, sh, b, g, fv, g0) ==
  /\ face' = fc
  /\ s_q' = sh[1] /\ h_q' = sh[2] /\ beta_q' = b /\ grad_s' = g
  /\ h_f' = fv[1] /\ s_f' = fv[2]
  /\ u0' = g0
  /\ u' = g0
  /\ tau' = DrivingStress(fc, sh[2], g, fv[1], fv[2])
  /\ tau_norm' = NormSq(tau')
  /\ tau_assemblies' = 1
  /\ r_at' = ResidualPoint(g0, g0)
  /\ floating' = Floating(sh[1], sh[2])
  /\ \E c \in ResidualChoices(tau') :
       /\ r' = Residual(fc, c)
       /\ r_first_zero' = (Residual(fc, c) = ZeroVector)
  /\ dU' = ZeroVector
  /\ dU_cg' = ZeroVector
  /\ error' = initial_error
  /\ prev_error' = initial_error
  /\ i' = 0
  /\ cg_steps' = 0
  /\ ret' = NoField
  /\ updates' = 0
  /\ assemblies' = 2
  /\ last_update' = NoField
  /\ pc' = "loop"
  /\ UNCHANGED other_vars

Call ==
  /\ pc = "idle"
  /\ \E fcase \in FaceCases, pcase \in PointCases, b \in FrictionValues,
        g0 \in InitialGuesses :
       Enter(fcase[1], << pcase[1], pcase[2] >>, b, pcase[3],
             << fcase[2], fcase[3] >>, g0)
  /\ UNCHANGED capped_ret

\* one pass of the loop body in which the linear solve succeeds
IterateOk(conv) ==
  /\ ~ CgFails(conv)
  /\ \E drift \in CgDrift :
       /\ dU_cg' = CgIterate(r, face, drift)
       /\ dU' = linear_solve(r, face, drift)
  /\ u' = AddScaled(u, alpha, dU')
  /\ u0' = GuessAfterUpdate(u0, u')
  /\ r_at' = ResidualPoint(u, u')
  /\ last_update' = u'
  /\ updates' = updates + 1
  \* the residual is a function of the fields: an unchanged velocity
  \* gives the residual it gave before
  /\ \E c \in ResidualChoices(tau) :
       /\ r' = Residual(face, c)
       /\ (dU' = ZeroVector => r' = r)
  /\ floating' = Floating(s_q, h_q)
  /\ error' = RelativeError(r', tau_norm)
  /\ prev_error' = error
  /\ i' = i + 1
  /\ assemblies' = assemblies + 2
  /\ pc' = "loop"
  /\ UNCHANGED << ret >>

\* one pass of the loop body in which the linear solve throws
IterateFail(conv) ==
  /\ CgFails(conv)
  /\ u' = VelocityOnSolveFailure(u, LinearSolve(r, face))
  /\ assemblies' = assemblies + 1
  /\ pc' = "failed"
  /\ UNCHANGED << dU, dU_cg, last_update, updates, r, floating, error, prev_error,
                  i, ret, u0, r_at >>

Iterate ==
  /\ pc = "loop"
  /\ LoopContinues(i, error)
  /\ \E conv \in CgConvergence :
       /\ cg_steps' = CgStepsTaken(conv)
       /\ (IterateOk(conv) \/ IterateFail(conv))
  /\ UNCHANGED << face, s_q, h_q, beta_q, grad_s, h_f, s_f, tau, r_first_zero,
                  capped_ret, tau_norm, tau_assemblies >>
  /\ UNCHANGED other_vars

\* the loop test fails: return u
Return ==
  /\ pc = "loop"
  /\ ~ LoopContinues(i, error)
  /\ ret' = ReturnValue(u, u0)
  /\ pc' = "returned"
  /\ UNCHANGED << face, s_q, h_q, beta_q, grad_s, h_f, s_f, u0, u, tau, r, dU,
                  error, i, floating, cg_steps, updates, assemblies,
                  last_update, prev_error, r_first_zero, capped_ret, dU_cg,
               tau_norm, tau_assemblies, r_at >>
  /\ UNCHANGED other_vars

Next == Call \/ Iterate \/ Return

Spec == Init /\ [][Next]_vars

FairSpec == Spec /\ WF_vars(Iterate) /\ WF_vars(Return)

\* ---------------------------------------------------------------------
\* A caller that solves twice: the second call takes the result of the
\* first as its initial guess, with a changed surface gradient
\* ---------------------------------------------------------------------
CallerFirst ==
  /\ pc = "idle"
  /\ Enter(Face(TRUE, boundary_id_terminus), << Fin(0, 1), 1 >>, 0, 1,
           << 1, 1 >>, ZeroVector)
  /\ UNCHANGED capped_ret

CallerAgain ==
  /\ pc = "returned"
  /\ capped_ret = NoField
  /\ i = max_iterations /\ RGt(error, tolerance)
  /\ Enter(face, << s_q, h_q >>, beta_q, 0, << h_f, s_f >>, ret)
  /\ capped_ret' = ret

NextCaller == CallerFirst \/ CallerAgain \/ Iterate \/ Return

SpecCaller == Init /\ [][NextCaller]_vars

\* ---------------------------------------------------------------------
\* The flotation switch applied to one quadrature point
\* ---------------------------------------------------------------------
\* surface values in units of 1.0e-5, around the flotation band of
\* thickness 1 and 2
PointSurfaceNumerators ==
  { -10002, -10001, -10000, 0, 1, 10000, 10001, 10002, 20001, 20002, 20003,
    21000 }
PointThicknesses == { -2, -1, 0, 1, 2 }

InitPoint ==
  /\ pc = "point"
  /\ s_q \in { Fin(n, 100000) : n \in PointSurfaceNumerators }
  /\ h_q \in PointThicknesses
  /\ face = Face(TRUE, boundary_id_terminus)
  /\ beta_q = 0 /\ grad_s = 0 /\ h_f = 0 /\ s_f = 0
  /\ u0 = ZeroVector
  /\ u = NoField /\ tau = NoField /\ r = NoField /\ dU = NoField
  /\ error = initial_error /\ i = 0
  /\ floating = FALSE
  /\ cg_steps = 0
  /\ ret = NoField
  /\ updates = 0 /\ assemblies = 0
  /\ last_update = NoField
  /\ prev_error = initial_error
  /\ r_first_zero = FALSE
  /\ capped_ret = NoField
  /\ dU_cg = NoField
  /\ tau_norm = 0 /\ tau_assemblies = 0 /\ r_at = NoField
  /\ ctensor = NoTensor
  /\ inverse_solver = NoSolver
  /\ sim = NoSimulation
  /\ assembly = NoAssembly
  /\ placeholder = NoPlaceholder

Classify ==
  /\ pc = "point"
  /\ floating' = Floating(s_q, h_q)
  /\ pc' = "classified"
  /\ UNCHANGED << face, s_q, h_q, beta_q, grad_s, h_f, s_f, u0, u, tau, r, dU,
                  error, i, cg_steps, ret, updates, assemblies, last_update,
                  prev_error, r_first_zero, capped_ret, dU_cg,
               tau_norm, tau_assemblies, r_at >>
  /\ UNCHANGED other_vars

NextPoint == Classify

SpecPoint == InitPoint /\ [][NextPoint]_vars

\* ---------------------------------------------------------------------
\* CTensors::linearized applied to one strain rate and two test tensors
\* ---------------------------------------------------------------------
TensorValues == { << a, b, c >> : a \in {-1, 0, 1}, b \in {-1, 0, 1}, c \in {-1, 0, 1} }
TestTensors == { << 1, 0, 0 >>, << 0, 1, 0 >>, << 0, 0, 1 >>, << 1, -1, 1 >> }
TensorThicknesses == { 0, 1, 2 }
ViscosityValues == { 1, 3 }

InitTensor ==
  /\ pc = "tensor"
  /\ SolverIdle
  /\ ctensor \in { [NoTensor EXCEPT !.eps = e, !.x = a, !.y = b, !.h = t, !.v = w] :
                     e \in TensorValues, a \in TensorValues, b \in TestTensors,
                     t \in TensorThicknesses, w \in ViscosityValues }
  /\ inverse_solver = NoSolver
  /\ sim = NoSimulation
  /\ assembly = NoAssembly
  /\ placeholder = NoPlaceholder

Linearize ==
  /\ pc = "tensor"
  /\ ~ ctensor.done
  /\ ctensor' =
       [ctensor EXCEPT
          !.xCy = linearized(ctensor.h, ctensor.v, ctensor.eps, ctensor.x, ctensor.y),
          !.yCx = linearized(ctensor.h, ctensor.v, ctensor.eps, ctensor.y, ctensor.x),
          !.xCx = linearized(ctensor.h, ctensor.v, ctensor.eps, ctensor.x, ctensor.x),
          !.done = TRUE]
  /\ UNCHANGED << pc, face, s_q, h_q, beta_q, grad_s, h_f, s_f, u0, u, tau, r, dU,
                  error, i, floating, cg_steps, ret, updates, assemblies,
                  last_update, prev_error, r_first_zero, capped_ret, dU_cg,
               tau_norm, tau_assemblies, r_at,
                  inverse_solver, sim, assembly, placeholder >>

NextTensor == Linearize

SpecTensor == InitTensor /\ [][NextTensor]_vars

\* ---------------------------------------------------------------------
\* The Gauss-Newton solver of the inverse problem (one scalar parameter)
\* ---------------------------------------------------------------------
MaxOuterIterations == 3

RelativeTolerances == { Fin(1, 200), Fin(1, 2) }
ExpectedTolerances == { Fin(1, 1000000), Fin(1, 2) }
AbsoluteTolerances == { 0, 1 }
GradientValues == { -2, 0, 2 }
HessianValues == { 1, 2 }
ObjectiveValues == { 0, 1, 3, 8 }
RegularizationValues == { 0, 1 }

\* J = E + R
J(sv) == sv.objective + sv.regularization

\* GaussNewtonSolver(inverse_problem, callback) followed by the call
\* solve(rtol, etol, atol, max_iterations): the solver is Ready at the
\* current (u, theta) with the objective evaluated there
InitGaussNewton ==
  /\ pc = "inverse"
  /\ SolverIdle
  /\ ctensor = NoTensor
  /\ inverse_solver \in
       { [NoSolver EXCEPT !.st = "Ready", !.phase = 1,
                          !.objective = 9, !.regularization = 1, !.J_prev = 10,
                          !.rtol = rt, !.etol = et, !.atol = at,
                          !.max_iterations = mx, !.has_callback = cb] :
           rt \in RelativeTolerances, et \in ExpectedTolerances,
           at \in AbsoluteTolerances, mx \in 1..MaxOuterIterations,
           cb \in BOOLEAN }
  /\ sim = NoSimulation
  /\ assembly = NoAssembly
  /\ placeholder = NoPlaceholder

\* the frame of every action of the Gauss-Newton solver
SolverUntouched ==
  UNCHANGED << pc, face, s_q, h_q, beta_q, grad_s, h_f, s_f, u0, u, tau, r, dU,
               error, i, floating, cg_steps, ret, updates, assemblies,
               last_update, prev_error, r_first_zero, capped_ret, dU_cg,
               tau_norm, tau_assemblies, r_at,
               ctensor, sim, assembly, placeholder >>

\* step 1: the gradient dJ by the adjoint method at the current (u, theta)
ComputeGradient ==
  /\ pc = "inverse" /\ inverse_solver.st = "Ready" /\ inverse_solver.phase = 1
  /\ \E g \in GradientValues :
       inverse_solver' = [inverse_solver EXCEPT !.gradient = g,
                            !.gradient_at = inverse_solver.theta, !.phase = 2]
  /\ SolverUntouched

\* the solution q of H q = -dJ (in halves of the unit of dJ)
GaussNewtonDirection(dJ, H) == (0 - dJ) \div H

\* step 2: the search direction from the Gauss-Newton system
ComputeSearchDirection ==
  /\ pc = "inverse" /\ inverse_solver.st = "Ready" /\ inverse_solver.phase = 2
  /\ \E H \in HessianValues :
       inverse_solver' =
         [inverse_solver EXCEPT
            !.search_direction = GaussNewtonDirection(inverse_solver.gradient, H),
            !.st = "SearchDirectionComputed", !.phase = 3]
  /\ SolverUntouched

\* what the callback of the tutorial reads from the solver
CallbackReads(sv) ==
  [gradient |-> sv.gradient, search_direction |-> sv.search_direction,
   objective |-> sv.objective, regularization |-> sv.regularization]

\* the optional progress callback
InvokeCallbackTwice(sv) ==
  IF sv.has_callback
    THEN [sv EXCEPT !.callback_calls = sv.callback_calls + 2,
                    !.callback_seen = CallbackReads(sv)]
    ELSE sv
InvokeCallback(sv) ==
  IF sv.has_callback
    THEN [sv EXCEPT !.callback_calls = sv.callback_calls + 1,
                    !.callback_seen = CallbackReads(sv)]
    ELSE sv

\* step 3: the expected decrease <dJ, q>, then the callback
ComputeExpectedDecrease ==
  /\ pc = "inverse" /\ inverse_solver.st = "SearchDirectionComputed"
  /\ inverse_solver.phase = 3
  /\ inverse_solver' =
       InvokeCallback(
         [inverse_solver EXCEPT
            !.expected_decrease = inverse_solver.gradient * inverse_solver.search_direction,
            !.phase = 4])
  /\ SolverUntouched

\* the state after the parameter step: the forward problem solved again
StaleState(sv) == sv.u
StateAfterStep(sv) == ForwardSolve(sv.theta + sv.search_direction)

\* step 4: theta <- theta + q, forward solve for the new u, J recomputed
TakeStep ==
  /\ pc = "inverse" /\ inverse_solver.st = "SearchDirectionComputed"
  /\ inverse_solver.phase = 4
  /\ \E E \in ObjectiveValues, R \in RegularizationValues :
       inverse_solver' =
         [inverse_solver EXCEPT
            !.theta = inverse_solver.theta + inverse_solver.search_direction,
            !.u = StateAfterStep(inverse_solver),
            !.J_prev = J(inverse_solver),
            !.objective = E, !.regularization = R,
            !.iteration = inverse_solver.iteration + 1,
            !.st = "StepTaken", !.phase = 5]
  /\ SolverUntouched

\* the stopping conditions of step 5
RelativeDecreaseSmall(sv) ==
  RLt(RDiv(Fin(sv.J_prev - J(sv), 1), Fin(sv.J_prev, 1)), sv.rtol)
ExpectedDecreaseSmall(sv) ==
  RLt(RDiv(Fin(Abs(sv.expected_decrease), 1), Fin(J(sv), 1)), sv.etol)
ExpectedDecreaseNonNegative(sv) == sv.expected_decrease >= 0
AbsoluteReached(sv) == J(sv) <= sv.atol
IterationsExhausted(sv) == sv.iteration >= sv.max_iterations

\* the state after step 5
StopStateWithoutEtol(sv) ==
  IF ExpectedDecreaseNonNegative(sv) THEN "ExpectedDecreaseNonNegative"
  ELSE IF RelativeDecreaseSmall(sv) \/ AbsoluteReached(sv) THEN "Converged"
  ELSE IF IterationsExhausted(sv) THEN "MaxIterationsReached"
  ELSE "Ready"
StopStateConvergedFirst(sv) ==
  IF RelativeDecreaseSmall(sv) \/ ExpectedDecreaseSmall(sv) \/ AbsoluteReached(sv)
    THEN "Converged"
  ELSE IF ExpectedDecreaseNonNegative(sv) THEN "ExpectedDecreaseNonNegative"
  ELSE IF IterationsExhausted(sv) THEN "MaxIterationsReached"
  ELSE "Ready"
StopState(sv) ==
  IF ExpectedDecreaseNonNegative(sv) THEN "ExpectedDecreaseNonNegative"
  ELSE IF RelativeDecreaseSmall(sv) \/ ExpectedDecreaseSmall(sv) \/ AbsoluteReached(sv)
    THEN "Converged"
  ELSE IF IterationsExhausted(sv) THEN "MaxIterationsReached"
  ELSE "Ready"

\* what solve returns
IterationsAllowed(sv) == sv.max_iterations
IterationsTaken(sv) == sv.iteration

\* step 5: stop and return the iteration count, or start another iteration
CheckStop ==
  /\ pc = "inverse" /\ inverse_solver.st = "StepTaken" /\ inverse_solver.phase = 5
  /\ inverse_solver' =
       IF StopState(inverse_solver) = "Ready"
         THEN [inverse_solver EXCEPT !.st = "Ready", !.phase = 1]
         ELSE [inverse_solver EXCEPT !.st = StopState(inverse_solver), !.phase = 0,
                                     !.iterations = IterationsTaken(inverse_solver)]
  /\ SolverUntouched

NextGaussNewton ==
  \/ ComputeGradient
  \/ ComputeSearchDirection
  \/ ComputeExpectedDecrease
  \/ TakeStep
  \/ CheckStop

SpecGaussNewton == InitGaussNewton /\ [][NextGaussNewton]_vars

\* ---------------------------------------------------------------------
\* The time-stepping loop of the ice-sheet tutorial
\* ---------------------------------------------------------------------
num_timesteps == 50

\* nodal values of the bed
bed == << 1, 0, 0 >>
\* nodal thickness values a prognostic solve may produce
PrognosticValues == { -1, 0, 1 }

\* eight times the value of the degree-2 field at the points 1/4 and 3/4
\* of the cell (quadratic Lagrange basis on the nodes 0, 1/2, 1)
EvaluationPoints == { 1, 3 }
FieldValue8(f, x) ==
  IF x = 1 THEN 3 * f[1] + 6 * f[2] - f[3]
           ELSE 6 * f[2] + 3 * f[3] - f[1]

\* interpolate(expression, Q): the nodal values of the expression
max_value(a, b) == IF a >= b THEN a ELSE b
InterpolateMax(f) == [n \in Nodes |-> max_value(f[n], 0)]
InterpolateSum(f, g) == [n \in Nodes |-> f[n] + g[n]]

\* before the loop: h = h0 (clamped at the nodes)
InitTimeStepping ==
  /\ pc = "timestepping"
  /\ SolverIdle
  /\ ctensor = NoTensor
  /\ inverse_solver = NoSolver
  /\ assembly = NoAssembly
  /\ placeholder = NoPlaceholder
  /\ sim \in { [NoSimulation EXCEPT !.phase = "prognostic", !.h = InterpolateMax(f),
                                     !.s = InterpolateSum(InterpolateMax(f), bed)] :
                 f \in { << 1, 1, 0 >>, << 1, 0, 0 >> } }

SimulationFrame ==
  UNCHANGED << pc, face, s_q, h_q, beta_q, grad_s, h_f, s_f, u0, u, tau, r, dU,
               error, i, floating, cg_steps, ret, updates, assemblies,
               last_update, prev_error, r_first_zero, capped_ret, dU_cg,
               tau_norm, tau_assemblies, r_at,
               ctensor, inverse_solver, assembly, placeholder >>

\* h = solver.prognostic_solve(dt, thickness=h, accumulation=a, velocity=u)
PrognosticStep ==
  /\ pc = "timestepping" /\ sim.phase = "prognostic"
  /\ sim.step < num_timesteps
  /\ \E a \in PrognosticValues, b \in PrognosticValues, c \in PrognosticValues :
       sim' = [sim EXCEPT !.h = << a, b, c >>,
                          !.prognostic_calls = sim.prognostic_calls + 1,
                          !.phase = "clamp"]
  /\ SimulationFrame

\* h.interpolate(max_value(h, 0))
ClampThickness ==
  /\ pc = "timestepping" /\ sim.phase = "clamp"
  /\ sim' = [sim EXCEPT !.h = InterpolateMax(sim.h), !.phase = "surface"]
  /\ SimulationFrame

\* s = interpolate(h + b, Q)
RecomputeSurface ==
  /\ pc = "timestepping" /\ sim.phase = "surface"
  /\ sim' = [sim EXCEPT !.s = InterpolateSum(sim.h, bed), !.phase = "diagnostic"]
  /\ SimulationFrame

\* u = solver.diagnostic_solve(velocity=u, thickness=h, surface=s, ...),
\* then the bookkeeping that ends the pass of the loop
DiagnosticStep ==
  /\ pc = "timestepping" /\ sim.phase = "diagnostic"
  /\ sim' = [sim EXCEPT !.h_handed = sim.h, !.s_handed = sim.s,
                          !.diagnostic_calls = sim.diagnostic_calls + 1,
                          !.step = sim.step + 1,
                          !.phase = "prognostic"]
  /\ SimulationFrame

NextTimeStepping ==
  \/ PrognosticStep
  \/ ClampThickness
  \/ RecomputeSurface
  \/ DiagnosticStep

SpecTimeStepping == InitTimeStepping /\ [][NextTimeStepping]_vars

\* ---------------------------------------------------------------------
\* Assembly at one quadrature point: the entry of the residual for the
\* shape function i and the entry of the velocity matrix for the shape
\* functions i and j, with JxW = 1
\* ---------------------------------------------------------------------
RAdd(a, b) == RSub(a, RNeg(b))

\* (eps_phi_i * C * eps) * dx with C = CTensors::nonlinear(T, H, eps)
StressResidual(h, v, eps, ei) == nonlinear(h, v, eps, ei, eps)

\* (phi_i * u_values[q]) * beta_values[q] * dx under if (floating)
DragResidualAlways(fl, pu, beta) == Fin(pu * beta, 1)
DragResidual(fl, pu, beta) == IF fl THEN Fin(pu * beta, 1) ELSE Fin(0, 1)

\* cell_residual = 0, then the two subtractions
CellResidual(fl, h, v, eps, ei, pu, beta) ==
  RSub(RSub(Fin(0, 1), StressResidual(h, v, eps, ei)), DragResidual(fl, pu, beta))

\* residual: r is a copy of f, the cell contribution is added, and the
\* coefficients of the dofs on the Dirichlet boundary are set to zero
ResidualEntry(f_i, cell, on_boundary) ==
  IF on_boundary THEN Fin(0, 1) ELSE RAdd(Fin(f_i, 1), cell)

\* the flotation switch as velocity_matrix writes it
FloatingInMatrixGE(s, H) ==
  LET flotation == Fin((rho_water - rho_ice) * H, rho_water)
      x == RMinusOne(RDiv(s, flotation))
  IN  RGt(x, flotation_tolerance) \/ x = flotation_tolerance
FloatingInMatrix(s, H) ==
  LET flotation == Fin((rho_water - rho_ice) * H, rho_water)
  IN  RGt(RMinusOne(RDiv(s, flotation)), flotation_tolerance)

\* (eps_phi_i * C * eps_phi_j) * dx with C = CTensors::linearized(T, H, eps)
StressMatrix(h, v, eps, ei, ej) == linearized(h, v, eps, ei, ej)

\* (phi_i * phi_j) * beta_values[q] * dx under if (floating)
DragMatrix(fl, pp, beta) == IF fl THEN Fin(pp * beta, 1) ELSE Fin(0, 1)

\* cell_matrix = 0, then the two additions
CellMatrix(fl, h, v, eps, ei, ej, pp, beta) ==
  RAdd(RAdd(Fin(0, 1), StressMatrix(h, v, eps, ei, ej)), DragMatrix(fl, pp, beta))

\* A = 0, then the cell contributions are added
AccumulateOnto(A_before, cell) == RAdd(A_before, cell)
ZeroThenAdd(A_before, cell) == RAdd(Fin(0, 1), cell)

\* driving_stress: a new field tau, which collects the cell contributions
DrivingStressEntry(h) ==
  Fin(DrivingStress(Face(FALSE, internal_face_boundary_id), h, 1, 0, 0)[2], 1)

AssemblyStrainRates == { << 0, 0, 0 >>, << 1, 0, 0 >>, << 1, -1, 1 >>, << 0, 1, 1 >> }
AssemblyGradients == { << 1, 0, 0 >>, << 0, 0, 1 >>, << 1, -1, 1 >> }
AssemblyThicknesses == { 0, 1, 2 }
\* surfaces below, at and above the flotation threshold of thickness 1
AssemblySurfaces == { Fin(0, 1), Fin(10001, 100000), Fin(10002, 100000) }
AssemblyFrictions == { 0, 2 }
AssemblyForcings == { 0, 3 }
\* what the matrix held before the pass
AssemblyMatrixBefore == { Fin(0, 1), Fin(5, 1) }

InitAssembly ==
  /\ pc = "assembly"
  /\ SolverIdle
  /\ ctensor = NoTensor
  /\ inverse_solver = NoSolver
  /\ sim = NoSimulation
  /\ placeholder = NoPlaceholder
  /\ assembly \in
       { [NoAssembly EXCEPT !.eps = e, !.ei = gi, !.ej = gj, !.h = t, !.s = sf,
                            !.beta = b, !.pu = 2, !.pp = 1, !.f_i = f,
                            !.on_boundary = ob, !.A_before = before,
                            !.A_ij = before] :
           e \in AssemblyStrainRates, gi \in AssemblyGradients,
           gj \in AssemblyGradients, t \in AssemblyThicknesses,
           sf \in AssemblySurfaces, b \in AssemblyFrictions,
           f \in AssemblyForcings, ob \in BOOLEAN, before \in AssemblyMatrixBefore }

AssemblyFrame ==
  UNCHANGED << pc, face, s_q, h_q, beta_q, grad_s, h_f, s_f, u0, u, tau, r, dU,
               error, i, floating, cg_steps, ret, updates, assemblies,
               last_update, prev_error, r_first_zero, capped_ret, dU_cg,
               tau_norm, tau_assemblies, r_at,
               ctensor, inverse_solver, sim, placeholder >>

\* tau = driving_stress(s, h)
AssembleDrivingStress ==
  /\ pc = "assembly" /\ assembly.tau_passes < 2
  /\ LET val == DrivingStressEntry(assembly.h)
     IN  assembly' =
           [assembly EXCEPT
              !.tau_i = val,
              !.tau_first = IF assembly.tau_passes = 0 THEN val ELSE @,
              !.tau_passes = @ + 1]
  /\ AssemblyFrame

\* r = residual(s, h, beta, u, f)
AssembleResidual ==
  /\ pc = "assembly" /\ assembly.r_passes < 2
  /\ LET fl == Floating(assembly.s, assembly.h)
         cell == CellResidual(fl, assembly.h, assembly.v, assembly.eps,
                              assembly.ei, assembly.pu, assembly.beta)
         val == ResidualEntry(assembly.f_i, cell, assembly.on_boundary)
     IN  assembly' =
           [assembly EXCEPT
              !.r_i = val,
              !.r_stress = StressResidual(assembly.h, assembly.v, assembly.eps,
                                          assembly.ei),
              !.r_floating = fl,
              !.r_first = IF assembly.r_passes = 0 THEN val ELSE @,
              !.r_passes = @ + 1]
  /\ AssemblyFrame

\* velocity_matrix(A, scalar_pde, vector_pde, s, h, beta, u)
AssembleMatrix ==
  /\ pc = "assembly" /\ assembly.A_passes < 2
  /\ LET fl == FloatingInMatrix(assembly.s, assembly.h)
         cell == CellMatrix(fl, assembly.h, assembly.v, assembly.eps,
                            assembly.ei, assembly.ej, assembly.pp, assembly.beta)
         val == ZeroThenAdd(assembly.A_ij, cell)
     IN  assembly' =
           [assembly EXCEPT
              !.A_ij = val,
              !.A_stress = StressMatrix(assembly.h, assembly.v, assembly.eps,
                                        assembly.ei, assembly.ej),
              !.A_floating = fl,
              !.A_first = IF assembly.A_passes = 0 THEN val ELSE @,
              !.A_passes = @ + 1]
  /\ AssemblyFrame

NextAssembly == AssembleDrivingStress \/ AssembleResidual \/ AssembleMatrix

SpecAssembly == InitAssembly /\ [][NextAssembly]_vars

\* ---------------------------------------------------------------------
\* The solves that are not written yet
\* ---------------------------------------------------------------------
\* h.copy_from(h0); return h
prognostic_solve_euler(dt, h0, a, velocity) == [n \in DOMAIN h0 |-> h0[n] + dt * a[n]]
prognostic_solve(dt, h0, a, velocity) == h0

\* q.copy_from(f); return q
adjoint_solve(h, beta, u0_, f) == f

PlaceholderSteps == { 0, 1, 2 }
PlaceholderFields == { << 0, 0 >>, << 1, 2 >>, << 3, 1 >> }
PlaceholderRates == { << 0, 0 >>, << 1, -1 >> }

InitPlaceholder ==
  /\ pc = "placeholder"
  /\ SolverIdle
  /\ ctensor = NoTensor
  /\ inverse_solver = NoSolver
  /\ sim = NoSimulation
  /\ assembly = NoAssembly
  /\ placeholder \in
       { [NoPlaceholder EXCEPT !.dt = t, !.h0 = th, !.a = acc, !.u = vel,
                               !.beta = b, !.f = rhs] :
           t \in PlaceholderSteps, th \in PlaceholderFields,
           acc \in PlaceholderRates, vel \in PlaceholderRates,
           b \in PlaceholderRates, rhs \in PlaceholderFields }

PlaceholderFrame ==
  UNCHANGED << pc, face, s_q, h_q, beta_q, grad_s, h_f, s_f, u0, u, tau, r, dU,
               error, i, floating, cg_steps, ret, updates, assemblies,
               last_update, prev_error, r_first_zero, capped_ret, dU_cg,
               tau_norm, tau_assemblies, r_at,
               ctensor, inverse_solver, sim, assembly >>

CallPrognosticSolve ==
  /\ pc = "placeholder" /\ placeholder.h_ret = NoField
  /\ placeholder' =
       [placeholder EXCEPT
          !.h_ret = prognostic_solve(placeholder.dt, placeholder.h0, placeholder.a,
                                     placeholder.u)]
  /\ PlaceholderFrame

CallAdjointSolve ==
  /\ pc = "placeholder" /\ placeholder.q_ret = NoField
  /\ placeholder' =
       [placeholder EXCEPT
          !.q_ret = adjoint_solve(placeholder.h0, placeholder.beta, placeholder.u,
                                  placeholder.f)]
  /\ PlaceholderFrame

NextPlaceholder == CallPrognosticSolve \/ CallAdjointSolve

SpecPlaceholder == InitPlaceholder /\ [][NextPlaceholder]_vars

\* ---------------------------------------------------------------------
\* Properties
\* ---------------------------------------------------------------------
\* the relative error against the tolerance (the tolerance is 1 in the
\* units of error, denominators are positive)
ErrAbove(e) == e.k = "pinf" \/ (e.k = "fin" /\ e.n > e.d)
ErrBelow(e) == e.k = "fin" /\ e.n < e.d
ErrAtTolerance(e) == e.k = "fin" /\ e.n = e.d
StoppedAtCap == i = max_iterations /\ ErrAbove(error)

\* C1 as stated: the Newton loop is left only with a relative residual
\* below 1e-10 or after 100 iterations.
C1_ExitBelowOrCap ==
  pc = "returned" => (ErrBelow(error) \/ i = max_iterations)

\* C1 amended: the Newton loop is left exactly when the relative residual
\* is not greater than 1e-10 (below it, equal to it, or not a number) or
\* 100 iterations were done; every iteration that was performed started
\* from a relative residual greater than 1e-10.
C1_LoopExit ==
  /\ i <= max_iterations
  /\ pc = "returned" => (~ ErrAbove(error) \/ i = max_iterations)
  /\ i > 0 => ErrAbove(prev_error)

C1_Witness == pc = "returned" /\ i < max_iterations /\ ErrAtTolerance(error)

\* C2: every call ends: at most 100 Newton iterations, each with one linear
\* solve of at most 1000 CG steps, and then the call has returned or has
\* ended with a solver failure.
C2_Terminates ==
  /\ [](i <= max_iterations /\ updates <= max_iterations
        /\ cg_steps <= cg_max_steps)
  /\ (pc = "loop" ~> pc \in {"returned", "failed"})

C2_Witness == pc = "returned" /\ i = max_iterations /\ cg_steps = cg_max_steps

\* C3: at the cap of 100 iterations with the relative residual still above
\* the tolerance no error is raised, and the call returns the velocity
\* obtained after the 100th damped update.
C3_CapReturnsLastUpdate ==
  /\ (pc = "returned" /\ StoppedAtCap)
       => (ret = last_update /\ ret # NoField /\ updates = max_iterations)
  /\ pc = "failed" => i < max_iterations

C3_Witness == pc = "returned" /\ StoppedAtCap /\ ret # u0

\* C4: what diagnostic_solve returns tells a converged run from a run that
\* stopped at the cap: a run that left the loop on the tolerance never
\* returns what a run stopped at the cap returned.
C4_OutcomeDistinguishable ==
  (pc = "returned" /\ capped_ret # NoField /\ ~ StoppedAtCap)
    => ret # capped_ret

\* C5: a linear solve that uses up its 1000 steps ends the call with a
\* solver failure: nothing is returned and the damped update of that
\* iteration is not applied.
C5_SolveFailurePropagates ==
  pc = "failed" =>
    /\ ret = NoField
    /\ cg_steps = cg_max_steps
    /\ updates = i
    /\ u = (IF i = 0 THEN u0 ELSE last_update)

C5_Witness == pc = "failed" /\ i > 0 /\ r # ZeroVector

\* C6: a call with a thickness that is negative somewhere fails before
\* any assembly is started.
C6_FailsBeforeAssembly ==
  (pc # "idle" /\ (h_q < 0 \/ h_f < 0)) => (assemblies = 0 /\ pc = "failed")

C8_FlotationStep ==
  pc = "classified" =>
    /\ floating \in BOOLEAN
    /\ floating <=>
         (CASE h_q > 0 -> s_q.n * rho_water * 10000
                            > 10001 * (rho_water - rho_ice) * h_q * s_q.d
            [] h_q < 0 -> s_q.n * rho_water * 10000
                            < 10001 * (rho_water - rho_ice) * h_q * s_q.d
            [] OTHER -> s_q.n > 0)

C8_Witness ==
  pc = "classified" /\ ~ floating /\ h_q = 1 /\ s_q = Fin(10001, 100000)

\* C9: the frontal stress enters the driving stress only on a boundary
\* face with id 1; there it is the ice part (rho_ice*H^2) minus the water
\* part (rho_water*D^2) when the draft D = s - H is negative and the ice
\* part alone otherwise.
C9_FrontalStress ==
  pc \in {"loop", "returned", "failed"} =>
    LET D == s_f - h_f
        front == tau[2] - tau[1]
    IN  IF face.at_boundary /\ face.boundary_id = 1
          THEN IF D < 0
                 THEN 2 * front = gravity * (rho_ice * h_f * h_f - rho_water * D * D)
                 ELSE 2 * front = gravity * rho_ice * h_f * h_f
          ELSE front = 0

C9_Witness ==
  /\ pc = "loop" /\ face = Face(TRUE, boundary_id_terminus)
  /\ s_f - h_f < 0 /\ h_f # 0

\* C11: for every strain rate, the zero strain rate included, and every
\* non-negative thickness the tensor of CTensors::linearized is symmetric
\* (x : C_lin : y equals y : C_lin : x) and its quadratic form x : C_lin : x
\* is non-negative.
C11_LinearizedElliptic ==
  (ctensor.done /\ ctensor.h >= 0) =>
    (REq(ctensor.xCy, ctensor.yCx) /\ RGe0(ctensor.xCx))

\* the same away from the zero strain rate (not a claim of its own)
LinearizedEllipticNonzero ==
  (ctensor.done /\ ctensor.h >= 0 /\ ctensor.eps # ZeroTensor) =>
    (REq(ctensor.xCy, ctensor.yCx) /\ RGe0(ctensor.xCx))

\* C12: the conjugate-gradient iteration of linear_solve takes at most
\* 1000 steps, and whenever linear_solve returned normally the increment
\* is what the iteration produced with the constraints distributed over
\* it afterwards: zero at every constrained dof, the iterate elsewhere.
C12_BudgetThenDistribute ==
  /\ cg_steps <= cg_max_steps
  /\ (pc \in {"loop", "returned"} /\ i > 0) =>
       \A d \in Dofs :
         dU[d] = (IF d \in ConstrainedDofs(face) THEN 0 ELSE dU_cg[d])

C12_Witness ==
  /\ pc = "loop" /\ i > 0 /\ cg_steps = cg_max_steps
  /\ dU_cg[1] # 0 /\ dU[1] = 0 /\ dU[2] # 0

\* the dofs on the Dirichlet segments of the boundary: the left end, and
\* the right end when the right face is a boundary face with id 0
OnDirichletSegment(d) == d = 1 \/ (face.at_boundary /\ face.boundary_id = 0)

\* C13 as stated: the returned velocity is 0 at every dof on the Dirichlet
\* segments, for every initial guess.
C13_DirichletZero ==
  pc = "returned" => \A d \in Dofs : OnDirichletSegment(d) => ret[d] = 0

\* C13 amended: the returned velocity has the value of the initial guess
\* at every dof on the Dirichlet segments.
C13_DirichletKeepsGuess ==
  pc = "returned" => \A d \in Dofs : OnDirichletSegment(d) => ret[d] = u0[d]

C13_Witness ==
  /\ pc = "returned" /\ updates > 1 /\ face = Face(TRUE, boundary_id_terminus)
  /\ ret[1] = u0[1] /\ u0[1] # 0 /\ ret[2] # u0[2]

\* the terminal states of the Gauss-Newton solver
GNTerminal == { "Converged", "ExpectedDecreaseNonNegative", "MaxIterationsReached" }

\* C14: solve returns the number of outer iterations it took (one callback
\* call each when a callback is supplied), and that number never exceeds
\* max_iterations; nothing is returned before the run has ended.
C14_ReturnsIterationCount ==
  /\ inverse_solver.st \in GNTerminal =>
       /\ inverse_solver.iterations = inverse_solver.iteration
       /\ inverse_solver.iterations <= inverse_solver.max_iterations
       /\ inverse_solver.has_callback =>
            inverse_solver.iterations = inverse_solver.callback_calls
  /\ inverse_solver.st \notin GNTerminal => inverse_solver.iterations = -1

C14_Witness ==
  /\ inverse_solver.st = "Converged" /\ inverse_solver.iterations = 2
  /\ inverse_solver.max_iterations = 3

\* the stopping conditions in the numbers of the last iteration
C15_AnyStopCondition ==
  LET sv == inverse_solver
      Jnow == sv.objective + sv.regularization
  IN  \/ (sv.J_prev - Jnow) * sv.rtol.d < sv.rtol.n * sv.J_prev
      \/ (Jnow > 0 /\ Abs(sv.expected_decrease) * sv.etol.d < sv.etol.n * Jnow)
      \/ sv.expected_decrease >= 0
      \/ Jnow <= sv.atol
      \/ sv.iteration >= sv.max_iterations

\* C15: after an iteration the outer loop stops exactly when the relative
\* decrease of J is below rtol, or |Delta|/J is below etol, or Delta >= 0,
\* or J <= atol, or max_iterations iterations were taken; otherwise it
\* starts another iteration.
C15_StopsExactlyWhen ==
  /\ inverse_solver.st \in GNTerminal => C15_AnyStopCondition
  /\ (inverse_solver.st = "Ready" /\ inverse_solver.iteration > 0
        /\ inverse_solver.phase = 1) => ~ C15_AnyStopCondition

C15_Witness ==
  /\ inverse_solver.st = "Converged" /\ inverse_solver.iteration = 1
  /\ inverse_solver.max_iterations = 3
  /\ inverse_solver.expected_decrease < 0
  /\ inverse_solver.objective + inverse_solver.regularization > inverse_solver.atol
  /\ inverse_solver.J_prev = 10
  /\ inverse_solver.objective + inverse_solver.regularization = 8
  /\ inverse_solver.rtol = Fin(1, 200)

C17_IterationOrder ==
  LET sv == inverse_solver
  IN  sv.st # "Unused" =>
        /\ sv.u = 3 * sv.theta + 1
        /\ sv.phase \in {2, 3, 4} => sv.gradient_at = sv.theta
        /\ sv.phase = 4 => sv.expected_decrease = sv.gradient * sv.search_direction
        /\ (sv.phase \in {5, 0} \/ (sv.phase = 1 /\ sv.iteration > 0)) =>
             /\ sv.theta = sv.gradient_at + sv.search_direction
             /\ sv.expected_decrease = sv.gradient * sv.search_direction
        /\ sv.phase = 3 => sv.search_direction * sv.gradient <= 0

C17_Witness ==
  /\ inverse_solver.st = "Ready" /\ inverse_solver.phase = 1
  /\ inverse_solver.iteration = 2 /\ inverse_solver.theta = -3
  /\ inverse_solver.u = -8

\* the callback was invoked once for every iteration begun, and at its
\* invocation read the values of that iteration
CallbackCountedAndFed ==
  LET sv == inverse_solver
  IN  sv.st # "Unused" =>
        IF sv.has_callback
          THEN /\ sv.callback_calls = sv.iteration + (IF sv.phase = 4 THEN 1 ELSE 0)
               /\ sv.phase = 4 =>
                    /\ sv.callback_seen = [gradient |-> sv.gradient,
                           search_direction |-> sv.search_direction,
                           objective |-> sv.objective,
                           regularization |-> sv.regularization]
                    /\ sv.gradient_at = sv.theta
          ELSE sv.callback_calls = 0 /\ sv.callback_seen = << >>

\* a step that invokes the callback is step 3 and changes nothing that
\* the iteration goes on with
CallbackStepIsPassive ==
  inverse_solver'.callback_calls # inverse_solver.callback_calls =>
    /\ inverse_solver.phase = 3 /\ inverse_solver'.phase = 4
    /\ inverse_solver'.theta = inverse_solver.theta
    /\ inverse_solver'.u = inverse_solver.u
    /\ inverse_solver'.gradient = inverse_solver.gradient
    /\ inverse_solver'.search_direction = inverse_solver.search_direction
    /\ inverse_solver'.objective = inverse_solver.objective
    /\ inverse_solver'.regularization = inverse_solver.regularization
    /\ inverse_solver'.iteration = inverse_solver.iteration
    /\ inverse_solver'.st = inverse_solver.st

\* C18: a supplied callback is invoked exactly once in every outer
\* iteration, after the gradient, the search direction and the expected
\* decrease of that iteration were computed and before the parameter
\* step, and it reads the gradient, the search direction, the objective
\* and the regularization of that iteration; the invocation changes
\* nothing else in the solver, and without a callback nothing is invoked.
C18_CallbackOncePerIteration ==
  [] CallbackCountedAndFed /\ [][CallbackStepIsPassive]_vars

C18_Witness ==
  /\ inverse_solver.has_callback /\ inverse_solver.callback_calls = 3
  /\ inverse_solver.phase = 4 /\ inverse_solver.callback_seen.gradient # 0

\* the passes of the loop call prognostic_solve and then diagnostic_solve,
\* once each, and the thickness handed to diagnostic_solve has the clamped
\* nodal values, with the surface computed from them
TimeSteppingOrder ==
  sim.phase # "unused" =>
    /\ sim.diagnostic_calls = sim.step
    /\ sim.prognostic_calls =
         sim.step + (IF sim.phase = "prognostic" THEN 0 ELSE 1)
    /\ sim.diagnostic_calls > 0 =>
         /\ \A n \in Nodes : sim.h_handed[n] >= 0
         /\ \A n \in Nodes : sim.s_handed[n] = sim.h_handed[n] + bed[n]

\* C19: every pass of the time-stepping loop calls prognostic_solve once
\* and then diagnostic_solve once, and the thickness handed to each
\* diagnostic_solve is non-negative everywhere in the cell: at the nodes
\* and at the points between them.
C19_ThicknessNonNegativeEverywhere ==
  /\ TimeSteppingOrder
  /\ (sim.phase # "unused" /\ sim.diagnostic_calls > 0) =>
       \A x \in EvaluationPoints : FieldValue8(sim.h_handed, x) >= 0

\* one pass of the Newton loop: the increment solves the linear system of
\* the pass (zero on the Dirichlet segments, along the residual elsewhere)
\* and the velocity is moved once, by 0.1 times the increment (velocities
\* are in tenths); a step that is no completed pass leaves the velocity
DampedUpdateStep ==
  /\ i' = i + 1 =>
       /\ updates' = updates + 1
       /\ \A d \in Dofs :
            /\ dU'[d] = (IF OnDirichletSegment(d) THEN 0
                         ELSE IF r[d] > 0 THEN 1 ELSE IF r[d] < 0 THEN -1 ELSE 0)
            /\ 10 * (u'[d] - u[d]) = velocity_scale * dU'[d]
  /\ (i' = i /\ pc = "loop") => (u' = u /\ updates' = updates)

\* C20: every Newton iteration changes the velocity exactly once, by
\* u <- u + 0.1 * du with du the solution of that iteration's linear
\* system; the factor is 0.1 in every iteration.
C20_DampedUpdate == [][DampedUpdateStep]_vars

C20_Witness ==
  /\ pc = "loop" /\ i = 3 /\ updates = 3 /\ dU[2] # 0
  /\ u[2] - u0[2] \in {3, -3}

\* ---------------------------------------------------------------------
\* The driving stress, the inputs and the exit of diagnostic_solve
\* ---------------------------------------------------------------------
InCall == pc \in { "loop", "returned", "failed" }

DrivingStressFixed ==
  InCall =>
    /\ tau_assemblies = 1
    /\ tau = DrivingStress(face, h_q, grad_s, h_f, s_f)
    /\ tau_norm = NormSq(tau)
    /\ (i > 0 => error = RDiv(Fin(NormSq(r), 1), Fin(NormSq(tau), 1)))

DrivingStressKept ==
  pc = "loop" => (tau' = tau /\ tau_norm' = tau_norm /\ tau_assemblies' = tau_assemblies)

InputsKept ==
  pc = "loop" =>
    << face, s_q, h_q, beta_q, grad_s, h_f, s_f, u0, tau >>' =
    << face, s_q, h_q, beta_q, grad_s, h_f, s_f, u0, tau >>

\* C25: diagnostic_solve and the assembly routines it calls leave their
\* inputs (s, h, beta, u0 and the driving stress f) unchanged: the loop
\* works on a copy of u0
C25_InputsUnchanged == [][InputsKept]_vars

C25_Witness == pc = "returned" /\ updates > 0 /\ ret # u0 /\ u0 \in InitialGuesses

\* C26: diagnostic_solve never returns without iterating: the error starts
\* above the tolerance, so every return follows at least one tangent
\* assembly, one linear solve and one damped update
C26_IteratesBeforeReturn ==
  pc = "returned" => (i >= 1 /\ updates >= 1 /\ assemblies >= 4 /\ cg_steps >= 1)

C26_Witness == pc = "returned" /\ r_first_zero /\ i = 1 /\ updates = 1

\* C28: at the dofs of the Dirichlet boundary the residual is zero after
\* every assembly and the increment is zero in every iteration, so the
\* velocity keeps the value of u0 there through the loop and at the return
C28_DirichletDofsFrozen ==
  InCall =>
    \A d \in BoundaryDofs(face) :
      /\ r[d] = 0
      /\ dU[d] = 0
      /\ u[d] = u0[d]
      /\ (pc = "returned" => ret[d] = u0[d])

C28_Witness ==
  pc = "returned" /\ i > 1 /\ BoundaryDofs(face) = { 1 } /\ r[2] # 0 /\ dU[2] # 0
  /\ ret[2] # u0[2] /\ ret[1] = u0[1]

\* C29: at the return the relative residual that decided the exit of the
\* loop was assembled from the returned velocity: no update follows the
\* last residual assembly
C29_ResidualOfReturned ==
  pc = "returned" =>
    /\ r_at = ret
    /\ error = RelativeError(r, tau_norm)
    /\ ~ LoopContinues(i, error)

C29_Witness == pc = "returned" /\ i > 1 /\ r_at = ret /\ ret # u0 /\ dU # ZeroVector

\* ---------------------------------------------------------------------
\* Assembly of the residual and of the velocity matrix
\* ---------------------------------------------------------------------
BothAssembled == pc = "assembly" /\ assembly.r_passes > 0 /\ assembly.A_passes > 0

\* C22: the basal drag enters the residual and the velocity matrix only at
\* a quadrature point classified floating; at a point classified grounded
\* both are what they are without friction, whatever the friction is
C22_DragOnlyWhereFloating ==
  /\ (pc = "assembly" /\ assembly.r_passes > 0 /\ ~ assembly.on_boundary) =>
       LET no_friction == RSub(Fin(assembly.f_i, 1), assembly.r_stress)
       IN  IF assembly.r_floating
             THEN assembly.r_i = RSub(no_friction, Fin(assembly.pu * assembly.beta, 1))
             ELSE assembly.r_i = no_friction
  /\ (pc = "assembly" /\ assembly.A_passes > 0) =>
       IF assembly.A_floating
         THEN assembly.A_ij = RAdd(assembly.A_stress, Fin(assembly.pp * assembly.beta, 1))
         ELSE assembly.A_ij = assembly.A_stress

C22_Witness ==
  BothAssembled /\ ~ assembly.on_boundary /\ assembly.beta > 0
  /\ ~ assembly.r_floating /\ ~ assembly.A_floating
  /\ assembly.r_i.k = "fin" /\ assembly.A_ij.k = "fin" /\ assembly.s.n > 0

\* C23: a pass of velocity_matrix, residual or driving_stress does not
\* depend on what the accumulator held before: the second pass with the
\* same inputs gives what the first gave, and the matrix entry is the cell
\* contribution alone
C23_AssemblyFromZero ==
  pc = "assembly" =>
    /\ (assembly.A_passes > 0 =>
          /\ assembly.A_ij = assembly.A_first
          /\ assembly.A_ij =
               RAdd(assembly.A_stress,
                    DragMatrix(assembly.A_floating, assembly.pp, assembly.beta)))
    /\ (assembly.r_passes > 0 => assembly.r_i = assembly.r_first)
    /\ (assembly.tau_passes > 0 => assembly.tau_i = assembly.tau_first)

C23_Witness ==
  pc = "assembly" /\ assembly.A_passes = 2 /\ assembly.r_passes = 2
  /\ assembly.tau_passes = 2 /\ assembly.A_before = Fin(5, 1)
  /\ assembly.A_ij.k = "fin" /\ assembly.A_ij.n # 0 /\ assembly.A_ij # assembly.A_before

\* x : ((2 * nu / 3) * outer_product(gamma, gamma)) : y at a nonzero strain
\* rate, in closed form
RankOneTerm(h, v, eps, x, y) ==
  Norm(4 * h * v * CForm(eps, x) * CForm(eps, y),
       3 * (Contract(eps, eps) + first_invariant(eps) * first_invariant(eps)))

TensorsOfAssembly ==
  assembly.eps # ZeroTensor =>
    /\ assembly.r_stress =
         Fin(2 * assembly.h * assembly.v * CForm(assembly.ei, assembly.eps), 1)
    /\ assembly.A_stress =
         RSub(Fin(2 * assembly.h * assembly.v * CForm(assembly.ei, assembly.ej), 1),
              RankOneTerm(assembly.h, assembly.v, assembly.eps, assembly.ei,
                          assembly.ej))

AlongStrainRate == assembly.ei = assembly.eps /\ assembly.ej = assembly.eps

C27_SameClassification ==
  BothAssembled =>
    /\ assembly.r_floating = assembly.A_floating
    /\ ((~ assembly.on_boundary /\ assembly.beta # 0 /\ assembly.eps # ZeroTensor) =>
          ((assembly.A_ij # assembly.A_stress)
             <=> (assembly.r_i # RSub(Fin(assembly.f_i, 1), assembly.r_stress))))

C27_Witness ==
  BothAssembled /\ assembly.r_floating /\ assembly.A_floating /\ assembly.beta > 0
  /\ assembly.h = 1 /\ ~ assembly.on_boundary /\ assembly.A_ij # assembly.A_stress

\* ---------------------------------------------------------------------
\* The placeholder solves
\* ---------------------------------------------------------------------
PlaceholderReturns ==
  pc = "placeholder" =>
    /\ (placeholder.h_ret # NoField => placeholder.h_ret = placeholder.h0)
    /\ (placeholder.q_ret # NoField => placeholder.q_ret = placeholder.f)

PlaceholderInputsKept ==
  pc = "placeholder" =>
    /\ placeholder'.dt = placeholder.dt /\ placeholder'.h0 = placeholder.h0
    /\ placeholder'.a = placeholder.a /\ placeholder'.u = placeholder.u
    /\ placeholder'.beta = placeholder.beta /\ placeholder'.f = placeholder.f

\* C30: prognostic_solve returns a field equal to the thickness h0 for
\* every dt, a and u, adjoint_solve returns a field equal to its right-hand
\* side f for every h, beta and u0, and neither changes its inputs
C30_PlaceholdersAreIdentities ==
  [] PlaceholderReturns /\ [][PlaceholderInputsKept]_vars

C30_Witness ==
  pc = "placeholder" /\ placeholder.dt = 2 /\ placeholder.a = << 1, -1 >>
  /\ placeholder.h0 = << 1, 2 >> /\ placeholder.h_ret = << 1, 2 >>
  /\ placeholder.f = << 3, 1 >> /\ placeholder.q_ret = << 3, 1 >>

====
